---- MODULE Spec2Model ----
(***************************************************************************)
(* Model of bc_binance/importer.py: the Importer's lot pool (self.lots),   *)
(* push_lot / satisfy_lots, and the two synthesizers extract_orders and    *)
(* extract_statement, one action per processed record.                     *)
(*                                                                         *)
(* Decimal quantities are integers; a price is a fraction num/den kept in  *)
(* lowest terms (Decimal division), with `some = FALSE` for Python's None. *)
(* Calendar dates are the integers 1..MaxDate.                             *)
(***************************************************************************)
EXTENDS Integers, Sequences, FiniteSets, TLC

VARIABLES
    lots,            \* self.lots
    mode,            \* which extract_* loop is running: idle, orders, statement, aborted
    entries,         \* the local `entries` list of the running extract_* call
    result,          \* what the last extract_* call returned, if it returned
    last_date,       \* extract_statement: last_date
    exchangedToBNB,  \* extract_statement: the dust dict, in insertion order
    simpleTraded,    \* extract_statement: the simple-trade dict
    nrows,           \* number of records processed so far
    nextId,          \* identity of the next lot object created
    row,             \* the record handled by the last step
    satisfied,       \* the satisfy_lots calls made by the last step, in order
    pushed,          \* the push_lot calls made by the last step, in order
    error            \* the exception that ended the run, if any

vars == <<lots, mode, entries, result, last_date, exchangedToBNB, simpleTraded,
          nrows, nextId, row, satisfied, pushed, error>>

----------------------------------------------------------------------------
(* Bounds of the model *)

MaxRows == 3
MaxDate == 2
MaxAmount == 2
MaxPrice == 2

Dates == 1..MaxDate

----------------------------------------------------------------------------
(* Values *)

\* Python's None where a Decimal price is expected
NoneDec == [some |-> FALSE, num |-> 0, den |-> 1]

\* Python's None where an asset name is expected
NoneAsset == "None"

\* last_date = None
NoneDate == 0

RECURSIVE Gcd(_, _)
Gcd(a, b) == IF b = 0 THEN a ELSE Gcd(b, a % b)

Abs(n) == IF n < 0 THEN -n ELSE n

\* D("<integer literal>")
D(n) == [some |-> TRUE, num |-> n, den |-> 1]

\* Decimal division a / b for b > 0, as a fraction in lowest terms
DecDiv(a, b) ==
    LET g == Gcd(Abs(a), b)
    IN  [some |-> TRUE, num |-> a \div g, den |-> b \div g]

\* truth value of a price: None and Decimal zero are false
Truthy(p) == p.some /\ p.num # 0

asset_account == "Assets:Binance"
commission_account == "Expenses:Binance:Commission"

\* Raw asset symbols as they appear in the CSV files
RawAssets == {"BNB", "1INCH"}

\* names whose first character matches [0-9]
StartsWithDigit(name) == name \in {"1INCH"}

escape_asset_name(name) ==
    IF StartsWithDigit(name) THEN "XX" \o name ELSE name

\* bc_amount.Amount(number, currency), and None in its place
Amount(number, currency) == [some |-> TRUE, number |-> number, currency |-> currency]
NoAmount == [some |-> FALSE, number |-> 0, currency |-> NoneAsset]

\* bc_amount.Amount(price, currency) used as a price annotation
PriceAmount(p, currency) ==
    [some |-> TRUE, num |-> p.num, den |-> p.den, currency |-> currency]
NoPrice == [some |-> FALSE, num |-> 0, den |-> 1, currency |-> NoneAsset]

\* data.Posting(account, units, None, price, None, None)
Posting(account, units, price) ==
    [account |-> account, units |-> units, price |-> price]

\* data.Transaction(meta, date, "*", "", narration, {}, {}, postings)
Transaction(date, narration, postings) ==
    [date |-> date, narration |-> narration, postings |-> postings]

----------------------------------------------------------------------------
(* The lot pool *)

\* A lot dict as passed to push_lot (no amount_left yet); id is the object's identity
NewLot(amount, price, base_asset, quote_asset, fill_date) ==
    [amount |-> amount, price |-> price, base_asset |-> base_asset,
     quote_asset |-> quote_asset, fill_date |-> fill_date]

\* dict equality (==) of two lots in the pool: all keys, not the identity
LotEq(a, b) ==
    /\ a.amount = b.amount
    /\ a.price = b.price
    /\ a.base_asset = b.base_asset
    /\ a.quote_asset = b.quote_asset
    /\ a.fill_date = b.fill_date
    /\ a.amount_left = b.amount_left

\* a sort that puts an element before those of equal key
RECURSIVE InsertBeforeTies(_, _)
InsertBeforeTies(sorted, lot) ==
    IF sorted = <<>> THEN <<lot>>
    ELSE IF Head(sorted).fill_date < lot.fill_date
         THEN <<Head(sorted)>> \o InsertBeforeTies(Tail(sorted), lot)
         ELSE <<lot>> \o sorted

\* list.sort(key=fill_date): stable, so an element goes after those with key <=
RECURSIVE InsertByDate(_, _)
InsertByDate(sorted, lot) ==
    IF sorted = <<>> THEN <<lot>>
    ELSE IF Head(sorted).fill_date <= lot.fill_date
         THEN <<Head(sorted)>> \o InsertByDate(Tail(sorted), lot)
         ELSE <<lot>> \o sorted

RECURSIVE SortFrom(_, _)
SortFrom(sorted, rest) ==
    IF rest = <<>> THEN sorted
    ELSE SortFrom(InsertByDate(sorted, Head(rest)), Tail(rest))

SortByFillDate(list) == SortFrom(<<>>, list)

\* a push_lot that rejects negative amounts only
push_lot_rejecting_negative(pool, lot, id) ==
    IF lot.amount < 0
    THEN [ok |-> FALSE, lots |-> pool]
    ELSE [ok |-> TRUE,
          lots |-> SortByFillDate(
                     Append(pool, lot @@ [amount_left |-> lot.amount, id |-> id]))]

\* push_lot(lot): [ok, lots]; ok = FALSE is the raised Exception
push_lot(pool, lot, id) ==
    IF lot.amount <= 0
    THEN [ok |-> FALSE, lots |-> pool]
    ELSE [ok |-> TRUE,
          lots |-> SortByFillDate(
                     Append(pool, lot @@ [amount_left |-> lot.amount, id |-> id]))]

\* a skip test that forgets the date
SkippedByAssetOnly(lot, base_asset, fill_date) ==
    lot.base_asset # base_asset

\* the test that makes satisfy_lots skip a lot
Skipped(lot, base_asset, fill_date) ==
    lot.base_asset # base_asset \/ lot.fill_date > fill_date

\* a decrement made on a copy of the lot: the pool keeps the old amount_left
DecrementLotOnCopy(pool, id, n) == pool

\* lot["amount_left"] -= n on the lot object itself
RECURSIVE DecrementLot(_, _, _)
DecrementLot(pool, id, n) ==
    IF pool = <<>> THEN <<>>
    ELSE IF Head(pool).id = id
         THEN <<[Head(pool) EXCEPT !.amount_left = @ - n]>> \o Tail(pool)
         ELSE <<Head(pool)>> \o DecrementLot(Tail(pool), id, n)

\* self.lots.remove(lot): drops the first element equal to lot
RECURSIVE RemoveLot(_, _)
RemoveLot(pool, lot) ==
    IF pool = <<>> THEN <<>>
    ELSE IF LotEq(Head(pool), lot) THEN Tail(pool)
         ELSE <<Head(pool)>> \o RemoveLot(Tail(pool), lot)

\* a split test that also splits a lot exactly as large as what is needed
SplitsOrEqual(lot, left_to_sell) == lot.amount_left >= left_to_sell

\* "if lot["amount_left"] > left_to_sell": the lot covers the rest and stays open
Splits(lot, left_to_sell) == lot.amount_left > left_to_sell

\* {**lot, "amount_used": n}
Fragment(lot, n) == lot @@ [amount_used |-> n]

\* the loop of satisfy_lots over list(self.lots), from index i on
RECURSIVE SatisfyLoop(_, _, _, _, _, _, _)
SatisfyLoop(copy, i, pool, left_to_sell, found_lots, base_asset, fill_date) ==
    IF i > Len(copy)
    THEN [lots |-> pool, found_lots |-> found_lots, left_to_sell |-> left_to_sell]
    ELSE
      LET lot == copy[i] IN
      IF Skipped(lot, base_asset, fill_date)
      THEN SatisfyLoop(copy, i + 1, pool, left_to_sell, found_lots, base_asset, fill_date)
      ELSE IF Splits(lot, left_to_sell)
      THEN [lots |-> DecrementLot(pool, lot.id, left_to_sell),
            found_lots |-> Append(found_lots,
                Fragment([lot EXCEPT !.amount_left = @ - left_to_sell], left_to_sell)),
            left_to_sell |-> 0]
      ELSE
        LET left == left_to_sell - lot.amount_left
            found == Append(found_lots, Fragment(lot, lot.amount_left))
            rest == RemoveLot(pool, lot)
        IN  IF left = 0
            THEN [lots |-> rest, found_lots |-> found, left_to_sell |-> left]
            ELSE SatisfyLoop(copy, i + 1, rest, left, found, base_asset, fill_date)

RECURSIVE Reverse(_)
Reverse(list) ==
    IF list = <<>> THEN <<>> ELSE Append(Reverse(Tail(list)), Head(list))

\* a matcher that scans the newest lots first
satisfy_newest_first(pool, amount, base_asset, fill_date) ==
    SatisfyLoop(Reverse(pool), 1, pool, amount, <<>>, base_asset, fill_date)

\* satisfy_lots(amount, base_asset, fill_date): the pool afterwards, the
\* returned found_lots, and left_to_sell as it stands at the warning test
satisfy_lots(pool, amount, base_asset, fill_date) ==
    SatisfyLoop(pool, 1, pool, amount, <<>>, base_asset, fill_date)

----------------------------------------------------------------------------
(* One pass of a loop body over the Importer's state.  A context carries   *)
(* self.lots and the local `entries` through the statements of the body;   *)
(* once an exception is raised (ok = FALSE) the remaining statements are   *)
(* not executed.                                                           *)

Context(pool, ents, id) ==
    [lots |-> pool, entries |-> ents, nextId |-> id,
     satisfied |-> <<>>, pushed |-> <<>>, ok |-> TRUE, error |-> "none"]

\* raise <exception>
Raise(c, exception) ==
    IF ~c.ok THEN c ELSE [c EXCEPT !.ok = FALSE, !.error = exception]

\* self.push_lot(lot)
CallPush(c, lot) ==
    IF ~c.ok THEN c
    ELSE LET p == push_lot(c.lots, lot, c.nextId)
             call == [lot |-> lot, before |-> c.lots, after |-> p.lots, ok |-> p.ok]
         IN  [c EXCEPT !.lots = p.lots,
                       !.nextId = IF p.ok THEN @ + 1 ELSE @,
                       !.pushed = Append(@, call),
                       !.ok = p.ok,
                       !.error = IF p.ok THEN @ ELSE "push_lot"]

\* lots = self.satisfy_lots(amount, base_asset, fill_date)
CallSatisfy(c, amount, base_asset, fill_date) ==
    IF ~c.ok THEN c
    ELSE LET s == satisfy_lots(c.lots, amount, base_asset, fill_date)
             call == [amount |-> amount, base_asset |-> base_asset,
                      fill_date |-> fill_date, before |-> c.lots, after |-> s.lots,
                      found_lots |-> s.found_lots, left_to_sell |-> s.left_to_sell]
         IN  [c EXCEPT !.lots = s.lots, !.satisfied = Append(@, call)]

\* the list returned by the most recent satisfy_lots call
FoundLots(c) == c.satisfied[Len(c.satisfied)].found_lots

\* entries.append(entry)
Emit(c, entry) ==
    IF ~c.ok THEN c ELSE [c EXCEPT !.entries = Append(@, entry)]

\* lot_to_posting(lot)
lot_to_posting(lot) ==
    Posting(asset_account,
            Amount(-lot.amount_used, lot.base_asset),
            IF Truthy(lot.price) THEN PriceAmount(lot.price, lot.quote_asset)
            ELSE NoPrice)

\* [self.lot_to_posting(lot) for lot in lots]
LotPostings(found) == [i \in 1..Len(found) |-> lot_to_posting(found[i])]

----------------------------------------------------------------------------
(* extract_orders: one trade record *)

\* tx["description"], whose trailing token is the side
Description(tx) == tx.base_asset \o tx.quote_asset \o " market " \o tx.side

\* fill_date_utc, or date_utc when it is empty (0)
FillDate(tx) == IF tx.fill_date_utc # 0 THEN tx.fill_date_utc ELSE tx.date_utc

\* a buy branch that pays the quote leg out of the open quote-asset lots
BuyLegPayingFromLots(c, tx) ==
    LET base == escape_asset_name(tx.base_asset)
        quote == escape_asset_name(tx.quote_asset)
        c0 == CallSatisfy(c, tx.amount * tx.price, quote, FillDate(tx))
        c1 == CallPush(c0, NewLot(tx.amount, D(tx.price), base, quote, FillDate(tx)))
        postings ==
            << Posting(asset_account, Amount(tx.amount, base),
                       PriceAmount(D(tx.price), quote)),
               Posting(asset_account, Amount(-tx.amount * tx.price, quote), NoPrice) >>
    IN  Emit(c1, Transaction(FillDate(tx), Description(tx), postings))

\* the buy branch: push the lot, then the two postings
BuyLeg(c, tx) ==
    LET base == escape_asset_name(tx.base_asset)
        quote == escape_asset_name(tx.quote_asset)
        c1 == CallPush(c, NewLot(tx.amount, D(tx.price), base, quote, FillDate(tx)))
        postings ==
            << Posting(asset_account, Amount(tx.amount, base),
                       PriceAmount(D(tx.price), quote)),
               Posting(asset_account, Amount(-tx.amount * tx.price, quote), NoPrice) >>
    IN  Emit(c1, Transaction(FillDate(tx), Description(tx), postings))

\* the posting of one fragment consumed by a sell
SellPosting(lot, tx) ==
    Posting(asset_account,
            Amount(-lot.amount_used, lot.base_asset),
            PriceAmount(D(tx.price), escape_asset_name(tx.quote_asset)))

\* a sell branch that gives up when the pool cannot cover the sale
SellLegRaisingWhenShort(c, tx) ==
    LET base == escape_asset_name(tx.base_asset)
        quote == escape_asset_name(tx.quote_asset)
        amount_obtained == tx.amount * tx.price
        c1 == CallSatisfy(c, tx.amount, base, FillDate(tx))
        found == FoundLots(c1)
        postings ==
            [i \in 1..Len(found) |-> SellPosting(found[i], tx)]
            \o << Posting(asset_account, Amount(amount_obtained, quote), NoPrice) >>
        c2 == IF c1.satisfied[Len(c1.satisfied)].left_to_sell > 0
              THEN Raise(c1, "NotEnoughCapital")
              ELSE CallPush(c1, NewLot(tx.amount * tx.price, NoneDec, quote, NoneAsset,
                                       FillDate(tx)))
    IN  Emit(c2, Transaction(FillDate(tx), Description(tx), postings))

\* a sell branch that pushes the sold amount, not the proceeds, as the new lot
SellLegPushingAmount(c, tx) ==
    LET base == escape_asset_name(tx.base_asset)
        quote == escape_asset_name(tx.quote_asset)
        amount_obtained == tx.amount * tx.price
        c1 == CallSatisfy(c, tx.amount, base, FillDate(tx))
        found == FoundLots(c1)
        postings ==
            [i \in 1..Len(found) |-> SellPosting(found[i], tx)]
            \o << Posting(asset_account, Amount(amount_obtained, quote), NoPrice) >>
        c2 == CallPush(c1, NewLot(tx.amount, NoneDec, quote, NoneAsset, FillDate(tx)))
    IN  Emit(c2, Transaction(FillDate(tx), Description(tx), postings))

\* the sell branch: consume lots, credit the proceeds, push them as a lot
SellLeg(c, tx) ==
    LET base == escape_asset_name(tx.base_asset)
        quote == escape_asset_name(tx.quote_asset)
        amount_obtained == tx.amount * tx.price
        c1 == CallSatisfy(c, tx.amount, base, FillDate(tx))
        found == FoundLots(c1)
        postings ==
            [i \in 1..Len(found) |-> SellPosting(found[i], tx)]
            \o << Posting(asset_account, Amount(amount_obtained, quote), NoPrice) >>
        c2 == CallPush(c1, NewLot(tx.amount * tx.price, NoneDec, quote, NoneAsset,
                                  FillDate(tx)))
    IN  Emit(c2, Transaction(FillDate(tx), Description(tx), postings))

\* a commission entry that balances the second commission as well
FeeLegBalancingBoth(c, tx) ==
    IF ~c.ok THEN c
    ELSE
    LET fee0 == tx.comm0_amount > 0
        fee1 == tx.has_comm1 /\ tx.comm1_amount > 0
        balancing == << Posting(commission_account, NoAmount, NoPrice) >>
        c1 == IF fee0
              THEN CallSatisfy(c, tx.comm0_amount, tx.comm0_asset, FillDate(tx))
              ELSE c
        postings0 == IF fee0 THEN LotPostings(FoundLots(c1)) \o balancing ELSE <<>>
        c2 == IF fee1
              THEN CallSatisfy(c1, tx.comm1_amount, tx.comm1_asset, FillDate(tx))
              ELSE c1
        postings == IF fee1
                    THEN postings0 \o LotPostings(FoundLots(c2)) \o balancing
                    ELSE postings0
    IN  IF fee0 \/ fee1
        THEN Emit(c2, Transaction(FillDate(tx), Description(tx) \o " fee", postings))
        ELSE c2

\* the commission entry of a record
FeeLeg(c, tx) ==
    IF ~c.ok THEN c
    ELSE
    LET fee0 == tx.comm0_amount > 0
        fee1 == tx.has_comm1 /\ tx.comm1_amount > 0
        c1 == IF fee0
              THEN CallSatisfy(c, tx.comm0_amount, tx.comm0_asset, FillDate(tx))
              ELSE c
        postings0 ==
            IF fee0
            THEN LotPostings(FoundLots(c1))
                 \o << Posting(commission_account, NoAmount, NoPrice) >>
            ELSE <<>>
        c2 == IF fee1
              THEN CallSatisfy(c1, tx.comm1_amount, tx.comm1_asset, FillDate(tx))
              ELSE c1
        postings == IF fee1 THEN postings0 \o LotPostings(FoundLots(c2)) ELSE postings0
        have_fee == fee0 \/ fee1
    IN  IF have_fee
        THEN Emit(c2, Transaction(FillDate(tx), Description(tx) \o " fee", postings))
        ELSE c2

\* the body of the loop of extract_orders for one record
OrderBody(c, tx) ==
    FeeLeg(IF tx.side = "buy" THEN BuyLeg(c, tx) ELSE SellLeg(c, tx), tx)

----------------------------------------------------------------------------
(* extract_statement: one statement row *)

\* "{} {} {} {}".format(account, operation, coin, remark).strip(), remark empty
Narration(tx, coin) == tx.account \o " " \o tx.operation \o " " \o coin

\* exchangedToBNB[coin] = change: a new key goes last, a known key keeps its place
RECURSIVE DictSet(_, _, _)
DictSet(dict, key, value) ==
    IF dict = <<>> THEN << [coin |-> key, change |-> value] >>
    ELSE IF Head(dict).coin = key
         THEN << [coin |-> key, change |-> value] >> \o Tail(dict)
         ELSE << Head(dict) >> \o DictSet(Tail(dict), key, value)

\* postings.insert(1, posting)
InsertAt1(postings, posting) ==
    << Head(postings) >> \o << posting >> \o Tail(postings)

\* the "Distribution" branch
DistributionRow(c, tx) ==
    LET coin == escape_asset_name(tx.coin)
        date == tx.utc_time
        head == << Posting(asset_account, Amount(tx.change, coin), NoPrice),
                   Posting(IF tx.change > 0 THEN "Income:Binance:Distribution"
                           ELSE "Expenses:Binance:Distribution", NoAmount, NoPrice) >>
        c1 == IF tx.change > 0
              THEN CallPush(c, NewLot(tx.change, NoneDec, coin, NoneAsset, date))
              ELSE CallSatisfy(c, tx.change, coin, date)
        postings == IF tx.change > 0 THEN head
                    ELSE head \o LotPostings(FoundLots(c1))
    IN  Emit(c1, Transaction(date, Narration(tx, coin), postings))

\* the "Deposit" branch: the entry is appended before the lot is pushed
DepositRow(c, tx) ==
    LET coin == escape_asset_name(tx.coin)
        date == tx.utc_time
        postings == << Posting(asset_account, Amount(tx.change, coin), NoPrice),
                       Posting("Equity:Unknown", NoAmount, NoPrice) >>
        c1 == Emit(c, Transaction(date, Narration(tx, coin), postings))
    IN  CallPush(c1, NewLot(tx.change, NoneDec, coin, NoneAsset, date))

\* the loop over exchangedToBNB.items(): [c, postings]
RECURSIVE DustLoop(_, _, _, _)
DustLoop(c, items, postings, date) ==
    IF items = <<>> \/ ~c.ok THEN [c |-> c, postings |-> postings]
    ELSE
      LET bnb_asset == Head(items).coin
          bnb_amount == Head(items).change
          posting == Posting(asset_account, Amount(bnb_amount, bnb_asset), NoPrice)
      IN  IF bnb_asset = "BNB"
          THEN DustLoop(CallPush(c, NewLot(bnb_amount, NoneDec, "BNB", NoneAsset, date)),
                        Tail(items), InsertAt1(postings, posting), date)
          ELSE DustLoop(c, Tail(items), Append(postings, posting), date)

\* a flush of the dust dict without the test of its length
FlushDustUnguarded(c, dust, date) ==
    IF ~c.ok THEN c
    ELSE LET r == DustLoop(c, dust,
                           << Posting(asset_account, NoAmount, NoPrice) >>, date)
         IN  Emit(r.c, Transaction(date, "Small assets exchange into BNB", r.postings))

\* "if len(exchangedToBNB) > 0": flush the dust dict into one entry
FlushDust(c, dust, date) ==
    IF ~c.ok \/ Len(dust) = 0 THEN c
    ELSE LET r == DustLoop(c, dust,
                           << Posting(asset_account, NoAmount, NoPrice) >>, date)
         IN  Emit(r.c, Transaction(date, "Small assets exchange into BNB", r.postings))

\* "if len(simpleTraded) > 0": flush the simple-trade dict into one entry
FlushSimple(c, simple, date) ==
    IF ~c.ok \/ DOMAIN simple = {} THEN c
    ELSE IF DOMAIN simple # {"source", "target"}
    THEN Raise(c, "KeyError")
    ELSE
      LET source == simple["source"]
          target == simple["target"]
      IN  IF target.amount = 0
          THEN Raise(c, "DivisionByZero")
          ELSE
            LET cost == DecDiv(Abs(source.amount), target.amount)
                postings ==
                  << Posting(asset_account, Amount(target.amount, target.coin),
                             PriceAmount(cost, source.coin)),
                     Posting(asset_account, Amount(source.amount, source.coin),
                             NoPrice) >>
                c1 == Emit(c, Transaction(date, "Manual exchange via simple interface",
                                          postings))
            IN  CallPush(c1, NewLot(target.amount, cost, target.coin, source.coin, date))

\* the two flushes with a last_date that was never assigned
FlushUndated(c, dust, simple, date) ==
    FlushSimple(FlushDust(c, dust, NoneDate), simple, NoneDate)

\* the two flushes at the end of the loop body
Flush(c, dust, simple, date) == FlushSimple(FlushDust(c, dust, date), simple, date)

\* the empty dict
EmptyDict == << >>

\* simpleTraded[key] = {"coin": coin, "amount": amount}
SimpleSet(simple, key, coin, amount) ==
    [k \in DOMAIN simple \cup {key} |->
        IF k = key THEN [coin |-> coin, amount |-> amount] ELSE simple[k]]

----------------------------------------------------------------------------
(* Inputs *)

\* trading pairs of the orders file: <<base_asset, quote_asset>>
Markets == { <<"1INCH", "BNB">> }

\* the commission columns of a trade record; comm1_* may be missing
NoCommission ==
    [comm0_amount |-> 0, comm0_asset |-> "BNB",
     has_comm1 |-> FALSE, comm1_amount |-> 0, comm1_asset |-> "BNB"]

Commissions ==
    { [NoCommission EXCEPT !.comm0_amount = a0] : a0 \in 0..1 }
    \cup
    { [NoCommission EXCEPT !.comm0_amount = a0, !.has_comm1 = TRUE,
                           !.comm1_amount = a1] : a0 \in 0..1, a1 \in 0..1 }

\* fill_date_utc is empty (0) in some records; date_utc never is
Timestamps ==
    { [fill_date_utc |-> d, date_utc |-> d] : d \in Dates }
    \cup { [fill_date_utc |-> 0, date_utc |-> MaxDate] }

\* records without commission, every side, amount, price and timestamp
PlainOrders ==
    { [side |-> sd, base_asset |-> m[1], quote_asset |-> m[2],
       amount |-> a, price |-> p] @@ t @@ NoCommission :
        sd \in {"buy", "sell"}, m \in Markets, a \in 1..MaxAmount,
        p \in 0..MaxPrice, t \in Timestamps }

\* records with commission columns, every side and combination of commissions
FeeOrders ==
    { [side |-> sd, base_asset |-> m[1], quote_asset |-> m[2],
       amount |-> MaxAmount, price |-> MaxPrice,
       fill_date_utc |-> MaxDate, date_utc |-> MaxDate] @@ f :
        sd \in {"buy", "sell"}, m \in Markets, f \in Commissions \ {NoCommission} }

\* sells with commission columns whose proceeds are zero
ZeroProceedsFeeOrders ==
    { [side |-> "sell", base_asset |-> m[1], quote_asset |-> m[2],
       amount |-> MaxAmount, price |-> 0,
       fill_date_utc |-> MaxDate, date_utc |-> MaxDate] @@ f :
        m \in Markets, f \in Commissions \ {NoCommission} }

OrderRecords == PlainOrders \cup FeeOrders \cup ZeroProceedsFeeOrders

Operations ==
    {"The Easiest Way to Trade", "Small assets exchange BNB",
     "Distribution", "Deposit", "Withdraw"}

\* rows of the operations the importer knows, every coin, change and date
KnownRows ==
    { [utc_time |-> d, account |-> "Spot", operation |-> op, coin |-> coin,
       change |-> ch] :
        d \in Dates, op \in Operations \ {"Withdraw"}, coin \in RawAssets,
        ch \in (-MaxAmount)..MaxAmount }

\* rows of an operation it does not know
UnknownRows ==
    { [utc_time |-> d, account |-> "Spot", operation |-> "Withdraw", coin |-> "BNB",
       change |-> -1] : d \in Dates }

StatementRows == KnownRows \cup UnknownRows

NoRecord == [side |-> "none"]

\* what the last step handled, with the pool and len(entries) it started from
Handled(kind, tx) ==
    [kind |-> kind, tx |-> tx, before |-> lots, emitted |-> Len(entries)]

NotReturned == [returned |-> FALSE, entries |-> <<>>]
Returned(ents) == [returned |-> TRUE, entries |-> ents]

----------------------------------------------------------------------------
(* The state machine *)

Init ==
    /\ lots = <<>>
    /\ mode = "idle"
    /\ entries = <<>>
    /\ result = NotReturned
    /\ last_date = NoneDate
    /\ exchangedToBNB = EmptyDict
    /\ simpleTraded = EmptyDict
    /\ nrows = 0
    /\ nextId = 1
    /\ row = [kind |-> "none", tx |-> NoRecord, before |-> <<>>, emitted |-> 0]
    /\ satisfied = <<>>
    /\ pushed = <<>>
    /\ error = "none"

\* the variables a loop body leaves as the context says
Commit(c) ==
    /\ lots' = c.lots
    /\ entries' = c.entries
    /\ nextId' = c.nextId
    /\ satisfied' = c.satisfied
    /\ pushed' = c.pushed
    /\ error' = c.error
    /\ mode' = IF c.ok THEN mode ELSE "aborted"

\* extract_orders(transactions) is entered
BeginOrders ==
    /\ mode = "idle"
    /\ mode' = "orders"
    /\ entries' = <<>>
    /\ result' = NotReturned
    /\ row' = Handled("begin", NoRecord)
    /\ satisfied' = <<>>
    /\ pushed' = <<>>
    /\ UNCHANGED <<lots, last_date, exchangedToBNB, simpleTraded, nrows, nextId, error>>

\* one iteration of the loop of extract_orders
OrderRecord ==
    /\ mode = "orders"
    /\ nrows < MaxRows
    /\ \E tx \in OrderRecords :
         /\ Commit(OrderBody(Context(lots, entries, nextId), tx))
         /\ row' = Handled("order", tx)
    /\ nrows' = nrows + 1
    /\ UNCHANGED <<result, last_date, exchangedToBNB, simpleTraded>>

\* extract_orders returns entries
ReturnOrders ==
    /\ mode = "orders"
    /\ mode' = "idle"
    /\ result' = Returned(entries)
    /\ row' = Handled("return", NoRecord)
    /\ satisfied' = <<>>
    /\ pushed' = <<>>
    /\ UNCHANGED <<lots, entries, last_date, exchangedToBNB, simpleTraded, nrows,
                   nextId, error>>

\* extract_statement(transactions) is entered
BeginStatement ==
    /\ mode = "idle"
    /\ mode' = "statement"
    /\ entries' = <<>>
    /\ result' = NotReturned
    /\ last_date' = NoneDate
    /\ exchangedToBNB' = EmptyDict
    /\ simpleTraded' = EmptyDict
    /\ row' = Handled("begin", NoRecord)
    /\ satisfied' = <<>>
    /\ pushed' = <<>>
    /\ UNCHANGED <<lots, nrows, nextId, error>>

\* a "The Easiest Way to Trade" row: buffered, then `continue`
SimpleTradeRow ==
    /\ mode = "statement"
    /\ nrows < MaxRows
    /\ \E tx \in StatementRows :
         /\ tx.operation = "The Easiest Way to Trade"
         /\ simpleTraded' =
              SimpleSet(simpleTraded, IF tx.change >= 0 THEN "target" ELSE "source",
                        escape_asset_name(tx.coin), tx.change)
         /\ last_date' = tx.utc_time
         /\ row' = Handled("statement", tx)
    /\ nrows' = nrows + 1
    /\ satisfied' = <<>>
    /\ pushed' = <<>>
    /\ UNCHANGED <<lots, mode, entries, result, exchangedToBNB, nextId, error>>

\* a "Small assets exchange BNB" row: buffered, then `continue`
DustRow ==
    /\ mode = "statement"
    /\ nrows < MaxRows
    /\ \E tx \in StatementRows :
         /\ tx.operation = "Small assets exchange BNB"
         /\ exchangedToBNB' =
              DictSet(exchangedToBNB, escape_asset_name(tx.coin), tx.change)
         /\ last_date' = tx.utc_time
         /\ row' = Handled("statement", tx)
    /\ nrows' = nrows + 1
    /\ satisfied' = <<>>
    /\ pushed' = <<>>
    /\ UNCHANGED <<lots, mode, entries, result, simpleTraded, nextId, error>>

\* what is left of the two dicts after the flushes ran, or did not
AfterFlush(c) ==
    /\ exchangedToBNB' = IF c.ok THEN EmptyDict ELSE exchangedToBNB
    /\ simpleTraded' = IF c.ok THEN EmptyDict ELSE simpleTraded

\* a "Distribution" row, and the flushes after it
DistributionStep ==
    /\ mode = "statement"
    /\ nrows < MaxRows
    /\ \E tx \in StatementRows :
         /\ tx.operation = "Distribution"
         /\ LET c == Flush(DistributionRow(Context(lots, entries, nextId), tx),
                           exchangedToBNB, simpleTraded, tx.utc_time)
            IN  Commit(c) /\ AfterFlush(c)
         /\ last_date' = tx.utc_time
         /\ row' = Handled("statement", tx)
    /\ nrows' = nrows + 1
    /\ UNCHANGED result

\* a "Deposit" row, and the flushes after it
DepositStep ==
    /\ mode = "statement"
    /\ nrows < MaxRows
    /\ \E tx \in StatementRows :
         /\ tx.operation = "Deposit"
         /\ LET c == Flush(DepositRow(Context(lots, entries, nextId), tx),
                           exchangedToBNB, simpleTraded, tx.utc_time)
            IN  Commit(c) /\ AfterFlush(c)
         /\ last_date' = tx.utc_time
         /\ row' = Handled("statement", tx)
    /\ nrows' = nrows + 1
    /\ UNCHANGED result

\* a row of any other operation: only the flushes
OtherRow ==
    /\ mode = "statement"
    /\ nrows < MaxRows
    /\ \E tx \in StatementRows :
         /\ tx.operation \notin {"The Easiest Way to Trade", "Small assets exchange BNB",
                                 "Distribution", "Deposit"}
         /\ LET c == Flush(Context(lots, entries, nextId),
                           exchangedToBNB, simpleTraded, tx.utc_time)
            IN  Commit(c) /\ AfterFlush(c)
         /\ last_date' = tx.utc_time
         /\ row' = Handled("statement", tx)
    /\ nrows' = nrows + 1
    /\ UNCHANGED result

\* the appended None: the flushes, then extract_statement returns entries
Sentinel ==
    /\ mode = "statement"
    /\ LET c == Flush(Context(lots, entries, nextId),
                      exchangedToBNB, simpleTraded, last_date)
       IN  /\ lots' = c.lots
           /\ entries' = c.entries
           /\ nextId' = c.nextId
           /\ satisfied' = c.satisfied
           /\ pushed' = c.pushed
           /\ error' = c.error
           /\ mode' = IF c.ok THEN "idle" ELSE "aborted"
           /\ result' = IF c.ok THEN Returned(c.entries) ELSE result
           /\ AfterFlush(c)
    /\ row' = Handled("sentinel", NoRecord)
    /\ UNCHANGED <<last_date, nrows>>

Next ==
    \/ BeginOrders
    \/ OrderRecord
    \/ ReturnOrders
    \/ BeginStatement
    \/ SimpleTradeRow
    \/ DustRow
    \/ DistributionStep
    \/ DepositStep
    \/ OtherRow
    \/ Sentinel

Spec == Init /\ [][Next]_vars

----------------------------------------------------------------------------
(* Vocabulary of the properties *)

RECURSIVE SumSeq(_)
SumSeq(numbers) ==
    IF numbers = <<>> THEN 0 ELSE Head(numbers) + SumSeq(Tail(numbers))

\* a lot that a request for base_asset as of fill_date may use
IsEligible(lot, base_asset, fill_date) ==
    lot.base_asset = base_asset /\ lot.fill_date <= fill_date

EligibleLots(pool, base_asset, fill_date) ==
    SelectSeq(pool, LAMBDA lot : IsEligible(lot, base_asset, fill_date))

\* total amount_left of the eligible lots
EligibleLeft(pool, base_asset, fill_date) ==
    LET e == EligibleLots(pool, base_asset, fill_date)
    IN  SumSeq([i \in 1..Len(e) |-> e[i].amount_left])

\* total amount_left of an asset in the pool
TotalLeft(pool, base_asset) ==
    SumSeq([i \in 1..Len(pool) |->
              IF pool[i].base_asset = base_asset THEN pool[i].amount_left ELSE 0])

\* sum of amount_used over the fragments
UsedSum(found) == SumSeq([i \in 1..Len(found) |-> found[i].amount_used])

\* amount_used taken from the lot of this identity, 0 if it gave no fragment
UsedFrom(found, id) ==
    SumSeq([i \in 1..Len(found) |->
              IF found[i].id = id THEN found[i].amount_used ELSE 0])

InPool(pool, id) == \E i \in 1..Len(pool) : pool[i].id = id

LotOf(pool, id) == pool[CHOOSE i \in 1..Len(pool) : pool[i].id = id]

Calls == {satisfied[i] : i \in 1..Len(satisfied)}

----------------------------------------------------------------------------
(* Properties *)

\* C1: every lot in the pool has 0 <= amount_left <= amount, whatever trade
\* records and statement rows were processed.
C1_AmountLeftWithinAmount ==
    \A i \in 1..Len(lots) :
        0 <= lots[i].amount_left /\ lots[i].amount_left <= lots[i].amount

\* C2: the pool is sorted non-decreasing by fill_date, and lots of equal
\* fill_date stand in the order in which they were pushed.
C2_PoolSortedStable ==
    \A i, j \in 1..Len(lots) :
        i < j =>
            /\ lots[i].fill_date <= lots[j].fill_date
            /\ lots[i].fill_date = lots[j].fill_date => lots[i].id < lots[j].id

\* C2 witness: after pushes with non-increasing dates and a consumption, the
\* pool holds a lot pushed later in front of one pushed earlier, and a tie.
C2_Witness ==
    /\ \E i, j \in 1..Len(lots) : i < j /\ lots[i].id > lots[j].id
    /\ \E i, j \in 1..Len(lots) : i < j /\ lots[i].fill_date = lots[j].fill_date
    /\ \E c \in Calls : c.found_lots # <<>> /\ c.amount > 0

\* C3: for every satisfy_lots call, the amount_used of the fragments sums to
\* at most the need; to the need when the eligible lots hold that much, and
\* to what they hold otherwise, the remainder being the need minus the sum.
C3_UsedSumMatchesNeed ==
    \A c \in Calls :
        LET used == UsedSum(c.found_lots)
            capacity == EligibleLeft(c.before, c.base_asset, c.fill_date)
        IN  /\ used <= c.amount
            /\ capacity >= c.amount => used = c.amount
            /\ capacity < c.amount => used = capacity
            /\ c.left_to_sell = c.amount - used

\* C4: no fragment returned by satisfy_lots comes from a lot of another asset
\* or of a fill_date after the requested date.
C4_FragmentsEligible ==
    \A c \in Calls :
        \A k \in 1..Len(c.found_lots) :
            LET f == c.found_lots[k] IN
            /\ InPool(c.before, f.id)
            /\ LotOf(c.before, f.id).base_asset = c.base_asset
            /\ LotOf(c.before, f.id).fill_date <= c.fill_date
            /\ f.base_asset = c.base_asset
            /\ f.fill_date <= c.fill_date

\* C4 witness: a call that could not be satisfied returned a fragment while
\* the pool held a lot of the asset dated after the request, left untouched.
C4_Witness ==
    \E c \in Calls :
        /\ c.amount > 0
        /\ c.found_lots # <<>>
        /\ c.left_to_sell > 0
        /\ \E i \in 1..Len(c.before) :
              /\ c.before[i].base_asset = c.base_asset
              /\ c.before[i].fill_date > c.fill_date
              /\ InPool(c.after, c.before[i].id)

\* C5: satisfy_lots consumes the eligible lots in pool order: the fragments
\* come from the first eligible lots, in that order; all but the last of them
\* were consumed whole and removed; at most the last one is left partly
\* consumed.
C5_OldestFirst ==
    \A c \in Calls :
        LET e == EligibleLots(c.before, c.base_asset, c.fill_date)
            k == Len(c.found_lots)
        IN  /\ k <= Len(e)
            /\ \A j \in 1..k : c.found_lots[j].id = e[j].id
            /\ \A j \in 1..(k - 1) :
                  /\ ~InPool(c.after, e[j].id)
                  /\ c.found_lots[j].amount_used = e[j].amount_left
            /\ \A i \in 1..Len(c.before) :
                  LET lot == c.before[i] IN
                  (InPool(c.after, lot.id)
                     /\ LotOf(c.after, lot.id).amount_left # lot.amount_left)
                  => (k > 0 /\ lot.id = c.found_lots[k].id)

\* C5 witness: a call consumed one lot whole, removed it, and took the rest
\* from the next eligible lot, which stays open.
C5_Witness ==
    \E c \in Calls :
        /\ c.amount > 0
        /\ Len(c.found_lots) >= 2
        /\ ~InPool(c.after, c.found_lots[1].id)
        /\ InPool(c.after, c.found_lots[Len(c.found_lots)].id)
        /\ c.left_to_sell = 0

\* C6: a lot leaves the pool exactly when its amount_left reaches 0: the pool
\* never holds a lot with amount_left = 0, and a call removes a lot if and
\* only if it used all that was left of it.
C6_RemovedExactlyWhenEmpty ==
    /\ \A i \in 1..Len(lots) : lots[i].amount_left # 0
    /\ \A c \in Calls :
          \A i \in 1..Len(c.before) :
              LET lot == c.before[i]
                  left == lot.amount_left - UsedFrom(c.found_lots, lot.id)
              IN  /\ InPool(c.after, lot.id) <=> left # 0
                  /\ InPool(c.after, lot.id) =>
                        LotOf(c.after, lot.id).amount_left = left

\* C6 witness: a call needed exactly what one lot had left and removed it,
\* while another call of the step left a lot open with part of its amount.
C6_Witness ==
    /\ \E c \in Calls :
          \E i \in 1..Len(c.before) :
              /\ c.before[i].amount_left = c.amount
              /\ UsedFrom(c.found_lots, c.before[i].id) = c.amount
              /\ ~InPool(c.after, c.before[i].id)
    /\ \E c \in Calls :
          \E i \in 1..Len(c.before) :
              /\ UsedFrom(c.found_lots, c.before[i].id) > 0
              /\ InPool(c.after, c.before[i].id)

\* C7: a push_lot with amount <= 0 fails and leaves the pool as it was; it is
\* the last thing the run does: the run is aborted, nothing is returned and
\* no further record is processed.
C7_FailedPush ==
    \A i \in 1..Len(pushed) :
        pushed[i].lot.amount <= 0 =>
            /\ ~pushed[i].ok
            /\ pushed[i].after = pushed[i].before
            /\ i = Len(pushed)
            /\ lots = pushed[i].before
            /\ mode = "aborted"
            /\ error = "push_lot"
            /\ ~result.returned

\* C7: in every state a push_lot with amount <= 0 has failed as above, and
\* no step is ever taken from an aborted run.
C7_NonPositivePushAborts ==
    []C7_FailedPush /\ [][mode # "aborted"]_vars

\* C7 witness: a run aborted by push_lot after it had built entries and
\* while the pool held lots; the entries were not returned.
C7_Witness ==
    /\ mode = "aborted"
    /\ error = "push_lot"
    /\ pushed # <<>>
    /\ pushed[Len(pushed)].lot.amount <= 0
    /\ entries # <<>>
    /\ lots # <<>>
    /\ ~result.returned

\* the step handled a sell whose base-asset need the pool could not cover
ShortSell ==
    /\ row.kind = "order"
    /\ row.tx.side = "sell"
    /\ satisfied # <<>>
    /\ satisfied[1].left_to_sell > 0

\* the sell of the step emitted its trade entry from the fragments found,
\* pushed the proceeds lot, and the loop goes on
SellWentThrough ==
    LET tx == row.tx
        base == escape_asset_name(tx.base_asset)
        quote == escape_asset_name(tx.quote_asset)
        c == satisfied[1]
        found == c.found_lots
    IN  /\ mode = "orders"
        /\ error = "none"
        /\ UsedSum(found) = EligibleLeft(c.before, base, FillDate(tx))
        /\ Len(entries) > row.emitted
        /\ LET t == entries[row.emitted + 1] IN
             /\ t.narration = Description(tx)
             /\ Len(t.postings) = Len(found) + 1
             /\ \A k \in 1..Len(found) :
                   t.postings[k].units = Amount(-found[k].amount_used, base)
             /\ t.postings[Len(found) + 1] =
                   Posting(asset_account, Amount(tx.amount * tx.price, quote), NoPrice)
        /\ Len(pushed) = 1
        /\ pushed[1].ok
        /\ pushed[1].lot =
              NewLot(tx.amount * tx.price, NoneDec, quote, NoneAsset, FillDate(tx))
        /\ \E i \in 1..Len(pushed[1].after) :
              /\ pushed[1].after[i].id = nextId - 1
              /\ pushed[1].after[i].amount_left = tx.amount * tx.price

\* C8 as stated: whenever the pool lacks eligible capacity for a sell, the
\* sell still emits its trade entry, pushes the proceeds lot, and processing
\* continues.
C8_ShortSellGoesThrough == ShortSell => SellWentThrough

\* C8 amended: the same for sells with positive proceeds (amount * price > 0).
C8_ShortSellWithProceedsGoesThrough ==
    (ShortSell /\ row.tx.amount * row.tx.price > 0) => SellWentThrough

\* C8 witness: a sell found part of what it needed, and went through.
C8_Witness ==
    /\ ShortSell
    /\ satisfied[1].found_lots # <<>>
    /\ row.tx.price > 0
    /\ mode = "orders"
    /\ Len(entries) > row.emitted

\* the step handled a sell of a > 0 at p > 0 that the eligible lots cover
CoveredSell ==
    /\ row.kind = "order"
    /\ row.tx.side = "sell"
    /\ row.tx.amount > 0
    /\ row.tx.price > 0
    /\ EligibleLeft(row.before, escape_asset_name(row.tx.base_asset),
                    FillDate(row.tx)) >= row.tx.amount

Without(pool, id) == SelectSeq(pool, LAMBDA lot : lot.id # id)

\* C10: a buy of a > 0 at price p emits exactly one trade entry, with the
\* postings +a base @ p quote and -a*p quote, pushes exactly one lot
\* {a base, price p quote, the fill date}, and its trade leg consumes no lot:
\* every lot that was in the pool is unchanged.
C10_Buy ==
    (row.kind = "order" /\ row.tx.side = "buy" /\ row.tx.amount > 0) =>
        LET tx == row.tx
            base == escape_asset_name(tx.base_asset)
            quote == escape_asset_name(tx.quote_asset)
            new == {k \in (row.emitted + 1)..Len(entries) :
                       entries[k].narration = Description(tx)}
        IN  /\ mode = "orders"
            /\ new = {row.emitted + 1}
            /\ entries[row.emitted + 1] =
                 Transaction(FillDate(tx), Description(tx),
                   << Posting(asset_account, Amount(tx.amount, base),
                              PriceAmount(D(tx.price), quote)),
                      Posting(asset_account, Amount(-(tx.amount * tx.price), quote),
                              NoPrice) >>)
            /\ Len(pushed) = 1
            /\ pushed[1].ok
            /\ pushed[1].lot = NewLot(tx.amount, D(tx.price), base, quote, FillDate(tx))
            /\ pushed[1].before = row.before
            /\ Without(pushed[1].after, nextId - 1) = row.before
            /\ \E i \in 1..Len(pushed[1].after) :
                  /\ pushed[1].after[i].id = nextId - 1
                  /\ pushed[1].after[i].amount_left = tx.amount
            /\ \A i \in 1..Len(satisfied) :
                  satisfied[i].base_asset \in {tx.comm0_asset, tx.comm1_asset}
            /\ satisfied # <<>> => satisfied[1].before = pushed[1].after

\* C10 witness: a buy at a price other than 1 made while the pool held an
\* open lot of the quote asset large enough to pay for it.
C10_Witness ==
    /\ row.kind = "order"
    /\ row.tx.side = "buy"
    /\ row.tx.price > 1
    /\ mode = "orders"
    /\ TotalLeft(row.before, escape_asset_name(row.tx.quote_asset))
         >= row.tx.amount * row.tx.price

----------------------------------------------------------------------------
(* Properties of extract_statement: the two buffers and their flushes *)

IsSimple(tx) == tx.operation = "The Easiest Way to Trade"
IsDust(tx) == tx.operation = "Small assets exchange BNB"

SimpleNarration == "Manual exchange via simple interface"
DustNarration == "Small assets exchange into BNB"

\* the entries appended since the last step began
NewEntries == SubSeq(entries, row.emitted + 1, Len(entries))

\* how many elements of a sequence satisfy the test
Count(seq, Test(_)) == Cardinality({i \in 1..Len(seq) : Test(seq[i])})

\* a complete simple-trade pair is pending, with a positive target leg
PairPending ==
    /\ mode = "statement"
    /\ DOMAIN simpleTraded = {"source", "target"}
    /\ simpleTraded["target"].amount > 0

\* the transaction the pending pair is to become
PairTransaction(source, target, date) ==
    Transaction(date, SimpleNarration,
        << Posting(asset_account, Amount(target.amount, target.coin),
                   PriceAmount(DecDiv(Abs(source.amount), target.amount), source.coin)),
           Posting(asset_account, Amount(source.amount, source.coin), NoPrice) >>)

\* the lot the pending pair is to become
PairLot(source, target, date) ==
    NewLot(target.amount, DecDiv(Abs(source.amount), target.amount),
           target.coin, source.coin, date)

\* this step appended exactly the pair's transaction, pushed exactly its lot
\* and emptied the buffer (primed: the state the step ends in)
PairFlushedByStep ==
    LET source == simpleTraded["source"]
        target == simpleTraded["target"]
        new == SubSeq(entries', Len(entries) + 1, Len(entries'))
    IN  /\ Count(new, LAMBDA e : e.narration = SimpleNarration) = 1
        /\ \E i \in 1..Len(new) : new[i] = PairTransaction(source, target, last_date')
        /\ Count(pushed', LAMBDA p : p.lot.quote_asset # NoneAsset) = 1
        /\ \E i \in 1..Len(pushed') :
               pushed'[i].ok /\ pushed'[i].lot = PairLot(source, target, last_date')
        /\ simpleTraded' = EmptyDict

\* the step handles a real row that is not a simple-trade row, or the sentinel,
\* and the row itself does not stop the run with the fatal push_lot error
UnrelatedToPairStep ==
    /\ row'.kind \in {"statement", "sentinel"}
    /\ row'.kind = "statement" => ~IsSimple(row'.tx)
    /\ error' # "push_lot"

\* C11: a simple-trade source row (s < 0 of S) and a target row (t > 0 of T),
\* in either order, followed by any unrelated row or the sentinel, produce
\* exactly one simple-trade transaction with postings +t T @ |s|/t S and s S,
\* push exactly one lot {t T, price |s|/t S} and leave the buffer empty.
C11_PairFlushedByUnrelatedRow ==
    [][ (PairPending /\ UnrelatedToPairStep) => PairFlushedByStep ]_vars


\* a run of dust-exchange rows is pending
DustPending == mode = "statement" /\ Len(exchangedToBNB) > 0

DustCoins(dict) == {dict[i].coin : i \in 1..Len(dict)}

\* dict[coin]
DustOf(dict, coin) == dict[CHOOSE i \in 1..Len(dict) : dict[i].coin = coin].change

\* the step handles a real row that is not a dust-exchange row, or the
\* sentinel, and no exception stops the run in it
UnrelatedToDustStep ==
    /\ row'.kind \in {"statement", "sentinel"}
    /\ row'.kind = "statement" => ~IsDust(row'.tx)
    /\ error' = "none"

\* the unpriced lots the row of this step pushes for itself (Deposit, Distribution)
OwnPushes(r) ==
    IF /\ r.kind = "statement"
       /\ \/ r.tx.operation = "Deposit"
          \/ r.tx.operation = "Distribution" /\ r.tx.change > 0
    THEN 1 ELSE 0

\* BNB's posting comes before the postings of the other swept assets
BnbFirst(entry) ==
    \A i, j \in 2..Len(entry.postings) :
        (entry.postings[j].units.currency = "BNB" /\ i < j)
            => entry.postings[i].units.currency = "BNB"

\* this step appended exactly one dust transaction, BNB first, pushed one lot
\* for the BNB amount exactly when BNB was swept, and emptied the dust map
DustFlushedByStep ==
    LET new == SubSeq(entries', Len(entries) + 1, Len(entries'))
        bnb == "BNB" \in DustCoins(exchangedToBNB)
    IN  /\ Count(new, LAMBDA e : e.narration = DustNarration) = 1
        /\ \A i \in 1..Len(new) :
               new[i].narration = DustNarration =>
                   /\ BnbFirst(new[i])
                   /\ {new[i].postings[k].units.currency :
                          k \in 2..Len(new[i].postings)} = DustCoins(exchangedToBNB)
                   /\ Len(new[i].postings) = 1 + Len(exchangedToBNB)
        /\ Count(pushed', LAMBDA p : p.lot.quote_asset = NoneAsset)
             = OwnPushes(row') + (IF bnb THEN 1 ELSE 0)
        /\ bnb => pushed'[OwnPushes(row') + 1].lot
                     = NewLot(DustOf(exchangedToBNB, "BNB"), NoneDec, "BNB",
                              NoneAsset, last_date')
        /\ exchangedToBNB' = EmptyDict

\* nothing is emitted or pushed while the run is still going
DustRowStepIsSilent ==
    (row'.kind = "statement" /\ IsDust(row'.tx)) =>
        (entries' = entries /\ lots' = lots)

\* C12: a run of one or more consecutive dust-exchange rows followed by an
\* unrelated row or the sentinel produces exactly one dust transaction (none
\* while the run is going), BNB's posting ahead of the other swept assets; the
\* flush pushes exactly one lot, for the BNB amount, when BNB is in the run and
\* none otherwise, and the dust map is empty afterwards.
C12_DustFlushedByUnrelatedRow ==
    [][ DustPending =>
          /\ DustRowStepIsSilent
          /\ UnrelatedToDustStep => DustFlushedByStep ]_vars


----------------------------------------------------------------------------
(* Properties of extract_orders: the fee transaction *)

\* at least one commission amount of the record is positive
HasPositiveCommission(tx) ==
    tx.comm0_amount > 0 \/ (tx.has_comm1 /\ tx.comm1_amount > 0)

IsFeeOf(entry, tx) == entry.narration = Description(tx) \o " fee"
IsTradeOf(entry, tx) == entry.narration = Description(tx)

HasCommissionPosting(entry) ==
    \E k \in 1..Len(entry.postings) : entry.postings[k].account = commission_account

\* what the claim says of the entries the last record appended
FeeRule(tx, new) ==
    /\ HasPositiveCommission(tx) <=> (\E i \in 1..Len(new) : IsFeeOf(new[i], tx))
    /\ Count(new, LAMBDA e : IsFeeOf(e, tx)) <= 1
    /\ \A i \in 1..Len(new) :
           IsFeeOf(new[i], tx) =>
               /\ i > 1 /\ IsTradeOf(new[i - 1], tx)
               /\ HasCommissionPosting(new[i]) <=> tx.comm0_amount > 0

\* C13 as stated: for every trade record a fee transaction is emitted iff a
\* commission amount (comm0, or comm1 when present) is positive; it follows
\* the record's trade transaction at once and has the commission-account
\* posting exactly when comm0 is positive.
C13_FeeIffCommission ==
    row.kind = "order" => FeeRule(row.tx, NewEntries)

\* C13, amended: the same for every trade record that is processed without
\* the fatal push_lot error; a record stopped by it emits neither transaction.
C13_FeeIffCommissionUnlessAborted ==
    /\ (row.kind = "order" /\ mode # "aborted") => FeeRule(row.tx, NewEntries)
    /\ (row.kind = "order" /\ mode = "aborted") => NewEntries = <<>>

\* C13 witness: a record whose only positive commission is the second one
\* consumed a lot and emitted, after its trade transaction, a fee transaction
\* without the commission-account posting.
C13_Witness ==
    /\ row.kind = "order" /\ mode # "aborted"
    /\ row.tx.comm0_amount = 0 /\ row.tx.has_comm1 /\ row.tx.comm1_amount > 0
    /\ Len(NewEntries) = 2
    /\ IsFeeOf(NewEntries[2], row.tx)
    /\ NewEntries[2].postings # <<>>
    /\ ~HasCommissionPosting(NewEntries[2])


----------------------------------------------------------------------------
(* Properties of extract_statement: rows of other kinds *)

KnownKinds ==
    {"The Easiest Way to Trade", "Small assets exchange BNB", "Distribution", "Deposit"}

NothingPending ==
    mode = "statement" /\ exchangedToBNB = EmptyDict /\ simpleTraded = EmptyDict

\* C14: a statement row whose operation is none of simple-trade,
\* dust-exchange, Distribution or Deposit, processed while no aggregate is
\* pending, emits no transaction and leaves the pool and both buffers unchanged.
C14_UnknownRowIsNoOp ==
    [][ (/\ NothingPending
         /\ row'.kind = "statement"
         /\ row'.tx.operation \notin KnownKinds)
        => (/\ entries' = entries
            /\ lots' = lots
            /\ exchangedToBNB' = exchangedToBNB
            /\ simpleTraded' = simpleTraded
            /\ mode' = "statement") ]_vars

\* C14 witness: a row of an unknown operation was processed with nothing
\* pending, after earlier rows had filled the pool and the entries.
C14_Witness ==
    /\ mode = "statement"
    /\ row.kind = "statement"
    /\ row.tx.operation \notin KnownKinds
    /\ exchangedToBNB = EmptyDict /\ simpleTraded = EmptyDict
    /\ entries # <<>> /\ Len(entries) = row.emitted
    /\ lots # <<>> /\ lots = row.before


\* the pending dust map holds this asset already
DustHas(dict, coin) == coin \in DustCoins(dict)

\* C15: the dust accumulator accumulates: when an asset appears more than once
\* in a run of dust-exchange rows, the quantity held for it (which the flush
\* turns into its posting, and for BNB into the lot) is the sum of the changes
\* of its rows, not the change of the last one.
C15_DustAccumulates ==
    [][ (/\ DustPending
         /\ row'.kind = "statement"
         /\ IsDust(row'.tx)
         /\ DustHas(exchangedToBNB, escape_asset_name(row'.tx.coin)))
        => DustOf(exchangedToBNB', escape_asset_name(row'.tx.coin))
             = DustOf(exchangedToBNB, escape_asset_name(row'.tx.coin))
               + row'.tx.change ]_vars


----------------------------------------------------------------------------
(* Properties of extract_statement: Distribution rows *)

Min(a, b) == IF a < b THEN a ELSE b

\* the last step handled a Distribution row with a negative change
NegativeDistribution ==
    /\ row.kind = "statement"
    /\ row.tx.operation = "Distribution"
    /\ row.tx.change < 0

\* C16: a Distribution row with change c < 0 for asset A on date D consumes
\* |c| of A: the total amount_left of the eligible A lots decreases by
\* min(|c|, eligible capacity), and the transaction starts with the posting
\* c A and has one posting per consumed fragment, each amount_used being
\* positive and at most |c|.
C16_NegativeDistributionConsumes ==
    NegativeDistribution =>
        LET A == escape_asset_name(row.tx.coin)
            date == row.tx.utc_time
            need == Abs(row.tx.change)
            call == satisfied[1]
            found == call.found_lots
            entry == NewEntries[1]
            n == Len(entry.postings)
        IN  /\ Len(satisfied) = 1
            /\ EligibleLeft(call.after, A, date)
                 = EligibleLeft(call.before, A, date)
                   - Min(need, EligibleLeft(call.before, A, date))
            /\ entry.postings[1]
                 = Posting(asset_account, Amount(row.tx.change, A), NoPrice)
            /\ SubSeq(entry.postings, n - Len(found) + 1, n) = LotPostings(found)
            /\ \A i \in 1..Len(found) :
                   found[i].amount_used > 0 /\ found[i].amount_used <= need


----------------------------------------------------------------------------
(* Properties of extract_statement: the flush points *)

\* exactly one leg of a simple trade is pending
OneLegPending ==
    mode = "statement" /\ Cardinality(DOMAIN simpleTraded) = 1

\* C17: the simple-trade buffer is flushed only when both legs are populated:
\* at a flush point (an unrelated row or the sentinel) reached with one leg
\* pending, no simple-trade transaction is emitted, no lot is pushed for it, no
\* error is raised, and the remaining rows are still processed.
C17_OneLegIsNotFlushed ==
    [][ (OneLegPending /\ UnrelatedToPairStep)
        => LET new == SubSeq(entries', Len(entries) + 1, Len(entries'))
           IN  /\ Count(new, LAMBDA e : e.narration = SimpleNarration) = 0
               /\ Count(pushed', LAMBDA p : p.lot.quote_asset # NoneAsset) = 0
               /\ error' = "none"
               /\ mode' # "aborted" ]_vars


\* the step handles a real row of this operation
HandlesRowOf(operation) ==
    row'.kind = "statement" /\ row'.tx.operation = operation

\* this step appended a dust transaction and emptied the dust map
DustEmittedByStep ==
    LET new == SubSeq(entries', Len(entries) + 1, Len(entries'))
    IN  /\ Count(new, LAMBDA e : e.narration = DustNarration) = 1
        /\ exchangedToBNB' = EmptyDict

\* the pending dust map can be flushed without the fatal push_lot error
DustFlushable ==
    \A i \in 1..Len(exchangedToBNB) :
        exchangedToBNB[i].coin = "BNB" => exchangedToBNB[i].change > 0

\* C18: after each statement row is dispatched, every pending aggregate that
\* the row's kind did not just add to is flushed: a complete simple-trade pair
\* as soon as the next row is a dust-exchange row, a non-empty dust map as soon
\* as the next row is a simple-trade row, so that each flushed transaction
\* stands in the output before the transaction of any later row.
C18_OtherKindFlushes ==
    [][ /\ (PairPending /\ HandlesRowOf("Small assets exchange BNB"))
             => PairFlushedByStep
        /\ (DustPending /\ DustFlushable /\ HandlesRowOf("The Easiest Way to Trade"))
             => DustEmittedByStep ]_vars


----------------------------------------------------------------------------
(* Properties of extract_statement: dates *)

IsFlushEntry(entry) == entry.narration \in {DustNarration, SimpleNarration}

\* what a flush produced in the last step bears the date in last_date
FlushDatedAtLastDate ==
    row.kind \in {"statement", "sentinel"} =>
        /\ \A i \in 1..Len(NewEntries) :
               IsFlushEntry(NewEntries[i]) => NewEntries[i].date = last_date
        /\ \A i \in 1..Len(pushed) : pushed[i].lot.fill_date = last_date

\* last_date is the date of the row a step handles; the sentinel keeps it
LastDateFollowsRows ==
    /\ row'.kind = "statement" => last_date' = row'.tx.utc_time
    /\ (mode = "statement" /\ row'.kind = "sentinel") => last_date' = last_date

NonDecreasingUpTo(ents, date) ==
    /\ \A i, j \in 1..Len(ents) : i < j => ents[i].date <= ents[j].date
    /\ \A i \in 1..Len(ents) : ents[i].date <= date

\* a row dated no earlier than the rows before it keeps the entries in order
OrderKeptByStep ==
    (/\ mode = "statement"
     /\ NonDecreasingUpTo(entries, last_date)
     /\ row'.kind = "statement" => row'.tx.utc_time >= last_date)
    => /\ NonDecreasingUpTo(entries', last_date')
       /\ result'.returned => result'.entries = entries'

\* C19: every transaction and lot produced by a dust or simple-trade flush is
\* dated at the date of the most recently processed real row (the row that
\* triggered the flush, or the last real row when the sentinel did); hence,
\* for rows fed in non-decreasing date order, the transactions returned are in
\* non-decreasing date order.
C19_FlushDatedAtTrigger ==
    /\ []FlushDatedAtLastDate
    /\ [][LastDateFollowsRows /\ OrderKeptByStep]_vars

\* C19 witness: a row of the last day, arriving after an entry of an earlier
\* day, triggered a dust flush that emitted a transaction and pushed a BNB lot.
C19_Witness ==
    /\ mode = "statement"
    /\ row.kind = "statement" /\ row.tx.utc_time = MaxDate
    /\ row.emitted > 0 /\ entries[1].date < MaxDate
    /\ \E i \in 1..Len(NewEntries) :
           NewEntries[i].narration = DustNarration /\ NewEntries[i].date = MaxDate
    /\ \E i \in 1..Len(pushed) :
           pushed[i].ok /\ pushed[i].lot.base_asset = "BNB"
                        /\ pushed[i].lot.fill_date = MaxDate
                        /\ row.tx.operation \notin {"Deposit", "Distribution"}


----------------------------------------------------------------------------
(* Lot conservation *)

\* the lots a request for base_asset as of fill_date may not use
Ineligible(pool, base_asset, fill_date) ==
    SelectSeq(pool, LAMBDA lot : ~IsEligible(lot, base_asset, fill_date))

\* a satisfy_lots call with a positive need takes from the asset's total
\* exactly what its fragments carry, and leaves the other lots as they were
CallConserves(call) ==
    /\ TotalLeft(call.after, call.base_asset)
         = TotalLeft(call.before, call.base_asset) - UsedSum(call.found_lots)
    /\ Ineligible(call.after, call.base_asset, call.fill_date)
         = Ineligible(call.before, call.base_asset, call.fill_date)
    /\ \A a \in {"BNB", "XX1INCH", "1INCH"} \ {call.base_asset} :
           TotalLeft(call.after, a) = TotalLeft(call.before, a)

SatisfiesConserve ==
    \A i \in 1..Len(satisfied) :
        satisfied[i].amount > 0 => CallConserves(satisfied[i])

\* amounts pushed for the asset by the calls of a step
PushedFor(calls, a) ==
    SumSeq([i \in 1..Len(calls) |->
              IF calls[i].ok /\ calls[i].lot.base_asset = a
              THEN calls[i].lot.amount ELSE 0])

\* amount_used returned for the asset by the calls of a step
UsedFor(calls, a) ==
    SumSeq([i \in 1..Len(calls) |->
              IF calls[i].base_asset = a THEN UsedSum(calls[i].found_lots) ELSE 0])

\* over a step, each asset's total moves by what was pushed minus what was used
StepConserves ==
    (row'.kind \in {"order", "statement", "sentinel"}) =>
        \A a \in {"BNB", "XX1INCH", "1INCH"} :
            TotalLeft(lots', a)
              = TotalLeft(lots, a) + PushedFor(pushed', a) - UsedFor(satisfied', a)

\* C20: every satisfy_lots call with need > 0 lowers the pool's total
\* amount_left of the asset by exactly the sum of amount_used of its
\* fragments, and every lot of another asset or of a later fill_date keeps its
\* amount_left and its relative position; hence each asset's total amount_left
\* is the sum of the amounts pushed minus the sum of amount_used returned.
C20_LotConservation ==
    /\ []SatisfiesConserve
    /\ [][StepConserves]_vars

\* C20 witness: a request with a positive need split a lot of the asset while
\* a lot of the same asset with a later fill_date stayed in the pool behind it.
C20_Witness ==
    \E i \in 1..Len(satisfied) :
        LET call == satisfied[i]
            kept == Ineligible(call.after, call.base_asset, call.fill_date)
        IN  /\ call.amount > 0
            /\ call.found_lots # <<>>
            /\ EligibleLeft(call.after, call.base_asset, call.fill_date) > 0
            /\ \E k \in 1..Len(kept) : kept[k].base_asset = call.base_asset

====
